---- MODULE Spec2Model ----
(***************************************************************************)
(* A model of python/ct/crypto/cert.py: the X509 Certificate API.         *)
(*                                                                         *)
(* A Certificate is built once from a DER string (Certificate.__init__)    *)
(* and then only read.  The model keeps the constructor's input, the       *)
(* decoded certificate the object holds, and the outcome of the latest     *)
(* accessor call.  The batch reader certs_from_pem is a generator: its     *)
(* state is the position in the block sequence and whether it is closed.   *)
(*                                                                         *)
(* Python values are tagged records, so that None, False, [] and a decoded *)
(* ASN.1 object are never confused: [t |-> "None"], [t |-> "bool", ...],   *)
(* [t |-> "list", items |-> <<...>>], ...                                  *)
(***************************************************************************)
EXTENDS Integers, Sequences, FiniteSets, TLC

VARIABLES
    der_string,          \* the constructor's input (abstract DER contents)
    strict_der,          \* the strict_der flag of the constructor / reader
    asn1_cert,           \* self._asn1_cert, or None before/without construction
    init_result,         \* "new", "ok" or the error __init__ raised
    last,                \* the latest accessor call: [op, arg, out]
    pem_blocks,          \* the blocks pem.pem_blocks delivers, in order
    skip_invalid_blobs,  \* the reader's skip_invalid_blobs flag
    pos,                 \* number of blocks the generator has consumed
    gen,                 \* generator state: "suspended" or "closed"
    reader,              \* which generator: certs_from_pem or certs_from_pem_file
    pull_log             \* outcomes of the next() calls made so far

vars == <<der_string, strict_der, asn1_cert, init_result, last,
          pem_blocks, skip_invalid_blobs, pos, gen, reader, pull_log>>

certVars == <<der_string, strict_der, asn1_cert, init_result, last>>
readerVars == <<pem_blocks, skip_invalid_blobs, pos, gen, reader, pull_log>>

-----------------------------------------------------------------------------
(* Bounds of the model.                                                    *)

MaxExtns == 2      \* longest extension sequence of an input certificate
MaxBlocks == 3     \* longest PEM block sequence given to the reader
MaxPulls == 5      \* next() calls on one generator
MaxTime == 2       \* time stamps are 0..MaxTime in each struct_time field

-----------------------------------------------------------------------------
(* Python values.                                                          *)

None == [t |-> "None"]
Bool(b) == [t |-> "bool", v |-> b]
PyInt(n) == [t |-> "int", v |-> n]
List(s) == [t |-> "list", items |-> s]

Return(v) == [kind |-> "return", value |-> v]
Raise(exc, msg) == [kind |-> "raise", exc |-> exc, msg |-> msg]

\* bool(x) as the accessors' "x or []" and "x if x else y" use it: None is
\* false, a sequence type is false when empty, a KeyUsage bit string carries
\* its own truth value (set by the external asn1 types), the rest are true.
Truthy(v) ==
    CASE v.t = "None" -> FALSE
      [] v.t = "list" -> Len(v.items) > 0
      [] v.t = "KeyUsage" -> v.nonzero
      [] OTHER -> TRUE

\* sum([list(x) for x in lists], []): the concatenation of the lists.
RECURSIVE Flatten(_)
Flatten(lists) ==
    IF lists = <<>> THEN <<>>
    ELSE Head(lists).items \o Flatten(Tail(lists))

\* [f(x) for x in s if p(x)] for the map and filter given as a function on
\* the elements' set: SelectSeq followed by a pointwise map.
MapSeq(s, F(_)) == [i \in 1..Len(s) |-> F(s[i])]

-----------------------------------------------------------------------------
(* Object identifiers (ct.crypto.asn1.oid) the accessors look up.          *)

ID_CE_BASIC_CONSTRAINTS == "ID_CE_BASIC_CONSTRAINTS"
ID_CE_KEY_USAGE == "ID_CE_KEY_USAGE"
ID_CE_EXT_KEY_USAGE == "ID_CE_EXT_KEY_USAGE"
ID_CE_SUBJECT_KEY_IDENTIFIER == "ID_CE_SUBJECT_KEY_IDENTIFIER"
ID_CE_AUTHORITY_KEY_IDENTIFIER == "ID_CE_AUTHORITY_KEY_IDENTIFIER"
ID_CE_CERTIFICATE_POLICIES == "ID_CE_CERTIFICATE_POLICIES"
ID_CE_CRL_DISTRIBUTION_POINTS == "ID_CE_CRL_DISTRIBUTION_POINTS"
ID_PE_AUTHORITY_INFO_ACCESS == "ID_PE_AUTHORITY_INFO_ACCESS"
ID_CE_SUBJECT_ALT_NAME == "ID_CE_SUBJECT_ALT_NAME"
ID_AD_CA_ISSUERS == "ID_AD_CA_ISSUERS"
ID_AD_OCSP == "ID_AD_OCSP"
ID_KP_SERVER_AUTH == "ID_KP_SERVER_AUTH"
ID_KP_CLIENT_AUTH == "ID_KP_CLIENT_AUTH"
\* an extension identifier the asn1 layer has no decoder for
ID_UNRECOGNIZED == "ID_UNRECOGNIZED"

RecognizedOids ==
    {ID_CE_BASIC_CONSTRAINTS, ID_CE_KEY_USAGE, ID_CE_EXT_KEY_USAGE,
     ID_CE_SUBJECT_KEY_IDENTIFIER, ID_CE_AUTHORITY_KEY_IDENTIFIER,
     ID_CE_CERTIFICATE_POLICIES, ID_CE_CRL_DISTRIBUTION_POINTS,
     ID_PE_AUTHORITY_INFO_ACCESS, ID_CE_SUBJECT_ALT_NAME}

ExtensionOids == RecognizedOids \cup {ID_UNRECOGNIZED}

\* x509_extension.KeyUsage.DIGITAL_SIGNATURE .. DECIPHER_ONLY: bits 0..8
KeyUsageBits == 0..8

\* x509_name component keys of a GeneralName
DNS_NAME == "dNSName"
IP_ADDRESS_NAME == "iPAddress"
URI_NAME == "uniformResourceIdentifier"

\* x509_extension component keys
KEY_IDENTIFIER == "keyIdentifier"
AUTHORITY_CERT_ISSUER == "authorityCertIssuer"
AUTHORITY_CERT_SERIAL_NUMBER == "authorityCertSerialNumber"
AkiComponents ==
    {KEY_IDENTIFIER, AUTHORITY_CERT_ISSUER, AUTHORITY_CERT_SERIAL_NUMBER}

-----------------------------------------------------------------------------
(* One extension of the sequence: e["extnID"], e["extnValue"].decoded_value *)
(* (None when the payload is corrupt or its type unrecognized).            *)

Extension(id, v) == [extnID |-> id, decoded_value |-> v]

\* extns = self._asn1_cert["tbsCertificate"]["extensions"] or []
Extns(self) == self.extensions

\* collections.Counter([e["extnID"] for e in extns])[id]
Count(extns, id) == Cardinality({i \in 1..Len(extns) : extns[i].extnID = id})

\* Certificate._has_multiple_extension_values
has_multiple_extension_values_never(self) == FALSE
has_multiple_extension_values(self) ==
    LET extns == Extns(self)
        extn_value_count ==
            [id \in {extns[i].extnID : i \in 1..Len(extns)} |-> Count(extns, id)]
    IN  \E id \in DOMAIN extn_value_count : extn_value_count[id] > 1

\* Certificate._get_decoded_extension_values
get_decoded_extension_values_reversed(self, extn_id) ==
    LET extns == Extns(self)
        extn_values == SelectSeq(extns, LAMBDA e : e.extnID = extn_id)
        decoded_values == MapSeq(extn_values, LAMBDA e : e.decoded_value)
        n == Len(decoded_values)
    IN  IF extn_values = <<>> THEN Return(List(<<>>))
        ELSE IF \E i \in 1..n : decoded_values[i] = None
        THEN Raise("CertificateError", "Corrupt or unrecognized extension")
        ELSE Return(List([i \in 1..n |-> decoded_values[n + 1 - i]]))
get_decoded_extension_values_any_corrupt(self, extn_id) ==
    LET extns == Extns(self)
        extn_values == SelectSeq(extns, LAMBDA e : e.extnID = extn_id)
        decoded_values == MapSeq(extn_values, LAMBDA e : e.decoded_value)
    IN  IF extn_values = <<>> THEN Return(List(<<>>))
        ELSE IF \E i \in 1..Len(extns) : extns[i].decoded_value = None
        THEN Raise("CertificateError", "Corrupt or unrecognized extension")
        ELSE Return(List(decoded_values))
get_decoded_extension_values(self, extn_id) ==
    LET extns == Extns(self)
        extn_values == SelectSeq(extns, LAMBDA e : e.extnID = extn_id)
        decoded_values == MapSeq(extn_values, LAMBDA e : e.decoded_value)
    IN  IF extn_values = <<>> THEN Return(List(<<>>))
        ELSE IF \E i \in 1..Len(decoded_values) : decoded_values[i] = None
        THEN Raise("CertificateError", "Corrupt or unrecognized extension")
        ELSE Return(List(decoded_values))

\* Certificate._get_decoded_extension_value
get_decoded_extension_value_first(self, extn_id) ==
    LET r == get_decoded_extension_values(self, extn_id)
    IN  IF r.kind = "raise" THEN r
        ELSE IF r.value.items = <<>> THEN Return(None)
        ELSE Return(r.value.items[1])
get_decoded_extension_value(self, extn_id) ==
    LET r == get_decoded_extension_values(self, extn_id)
    IN  IF r.kind = "raise" THEN r
        ELSE IF r.value.items = <<>> THEN Return(None)
        ELSE IF Len(r.value.items) > 1
        THEN Raise("CertificateError", "Multiple extension values")
        ELSE Return(r.value.items[1])

-----------------------------------------------------------------------------
(* Decoded extension values (produced by the asn1 layer, read here).       *)

BasicConstraints(ca, plen) ==
    [t |-> "BasicConstraints", cA |-> ca, pathLenConstraint |-> plen]
\* a named bit string; nonzero is bool(ku) as the asn1 type defines it
KeyUsage(bits, nonzero) == [t |-> "KeyUsage", bits |-> bits, nonzero |-> nonzero]
KeyIdentifier(k) == [t |-> "KeyIdentifier", v |-> k]
GeneralName(key, value) == [t |-> "GeneralName", key |-> key, value |-> value]
AuthorityKeyIdentifier(kid, issuer, serial) ==
    [t |-> "AuthorityKeyIdentifier", keyIdentifier |-> kid,
     authorityCertIssuer |-> issuer, authorityCertSerialNumber |-> serial]
PolicyInformation(id, q) ==
    [t |-> "PolicyInformation", policyIdentifier |-> id, policyQualifiers |-> q]
AccessDescription(method, location) ==
    [t |-> "AccessDescription", accessMethod |-> method,
     accessLocation |-> location]
DistributionPoint(name) == [t |-> "DistributionPoint", fullName |-> name]

\* the set bits of a bit string in ascending order (ku.bits_set())
RECURSIVE SortedSeq(_)
SortedSeq(S) ==
    IF S = {} THEN <<>>
    ELSE LET m == CHOOSE x \in S : \A y \in S : x <= y
         IN  <<m>> \o SortedSeq(S \ {m})

-----------------------------------------------------------------------------
(* Certificate.__init__                                                    *)

\* x509.Certificate.decode(der_string, strict=strict_der): ASN.1 errors fall
\* through; strict mode also rejects a corrupt extension whose ID is
\* recognized.
X509Decode(der, strict) ==
    IF ~der.wellformed THEN Raise("ASN1Error", "invalid encoding")
    ELSE IF strict /\ \E i \in 1..Len(der.extensions) :
                /\ der.extensions[i].extnID \in RecognizedOids
                /\ der.extensions[i].decoded_value = None
    THEN Raise("ASN1Error", "corrupt extension")
    ELSE Return([t |-> "Certificate", extensions |-> der.extensions,
                 notBefore |-> der.notBefore, notAfter |-> der.notAfter])

\* Certificate.__init__ / from_der: the decoded certificate, or the error.
CertificateInit_unconditional(der, strict) ==
    LET d == X509Decode(der, strict)
    IN  IF d.kind = "raise" THEN d
        ELSE IF has_multiple_extension_values(d.value)
        THEN Raise("ASN1Error", "Multiple extensions")
        ELSE d
CertificateInit(der, strict) ==
    LET d == X509Decode(der, strict)
    IN  IF d.kind = "raise" THEN d
        ELSE IF strict /\ has_multiple_extension_values(d.value)
        THEN Raise("ASN1Error", "Multiple extensions")
        ELSE d

-----------------------------------------------------------------------------
(* Accessors: each is a function of the decoded certificate `self`.        *)

basic_constraint_ca(self) ==
    LET bc == get_decoded_extension_value(self, ID_CE_BASIC_CONSTRAINTS)
    IN  IF bc.kind = "raise" THEN bc
        ELSE IF bc.value = None THEN Return(None)
        ELSE Return(bc.value.cA)

basic_constraint_path_length(self) ==
    LET bc == get_decoded_extension_value(self, ID_CE_BASIC_CONSTRAINTS)
    IN  IF bc.kind = "raise" THEN bc
        ELSE IF bc.value = None THEN Return(None)
        ELSE Return(bc.value.pathLenConstraint)

key_usage_absent_is_false(self, bit) ==
    LET ku == get_decoded_extension_value(self, ID_CE_KEY_USAGE)
    IN  IF ku.kind = "raise" THEN ku
        ELSE IF ku.value = None THEN Return(Bool(FALSE))
        ELSE Return(Bool(bit \in ku.value.bits))
key_usage(self, bit) ==
    LET ku == get_decoded_extension_value(self, ID_CE_KEY_USAGE)
    IN  IF ku.kind = "raise" THEN ku
        ELSE IF ku.value = None THEN Return(None)
        ELSE Return(Bool(bit \in ku.value.bits))

key_usages(self) ==
    LET ku == get_decoded_extension_value(self, ID_CE_KEY_USAGE)
    IN  IF ku.kind = "raise" THEN ku
        ELSE IF Truthy(ku.value) THEN Return(List(SortedSeq(ku.value.bits)))
        ELSE Return(List(<<>>))

extended_key_usage(self, ext_key_usage) ==
    LET eku == get_decoded_extension_value(self, ID_CE_EXT_KEY_USAGE)
    IN  IF eku.kind = "raise" THEN eku
        ELSE IF eku.value = None THEN Return(None)
        ELSE Return(Bool(\E i \in 1..Len(eku.value.items) :
                            eku.value.items[i] = ext_key_usage))

extended_key_usages(self) ==
    LET eku == get_decoded_extension_value(self, ID_CE_EXT_KEY_USAGE)
    IN  IF eku.kind = "raise" THEN eku
        ELSE IF Truthy(eku.value) THEN eku
        ELSE Return(List(<<>>))

subject_key_identifier(self) ==
    get_decoded_extension_value(self, ID_CE_SUBJECT_KEY_IDENTIFIER)

authority_key_identifier(self, identifier_type) ==
    LET akid == get_decoded_extension_value(self, ID_CE_AUTHORITY_KEY_IDENTIFIER)
    IN  IF akid.kind = "raise" THEN akid
        ELSE IF Truthy(akid.value) THEN Return(akid.value[identifier_type])
        ELSE Return(None)

policies(self) ==
    LET ps == get_decoded_extension_value(self, ID_CE_CERTIFICATE_POLICIES)
    IN  IF ps.kind = "raise" THEN ps
        ELSE IF Truthy(ps.value) THEN ps
        ELSE Return(List(<<>>))

policy_first_match(self, policy_oid) ==
    LET ps == policies(self)
    IN  IF ps.kind = "raise" THEN ps
        ELSE IF ~Truthy(ps.value) THEN Return(None)
        ELSE LET matching ==
                   SelectSeq(ps.value.items,
                             LAMBDA p : p.policyIdentifier = policy_oid)
             IN  IF matching = <<>> THEN Return(None)
                 ELSE Return(matching[1])
policy(self, policy_oid) ==
    LET ps == policies(self)
    IN  IF ps.kind = "raise" THEN ps
        ELSE IF ~Truthy(ps.value) THEN Return(None)
        ELSE LET matching ==
                   SelectSeq(ps.value.items,
                             LAMBDA p : p.policyIdentifier = policy_oid)
             IN  IF matching = <<>> THEN Return(None)
                 ELSE IF Len(matching) > 1
                 THEN Raise("CertificateError", "Policy asserted more than once")
                 ELSE Return(matching[1])

has_policy(self, policy_oid) ==
    LET p == policy(self, policy_oid)
    IN  IF p.kind = "raise" THEN p
        ELSE Return(Bool(p.value # None))

crl_distribution_points(self) ==
    LET dps == get_decoded_extension_value(self, ID_CE_CRL_DISTRIBUTION_POINTS)
    IN  IF dps.kind = "raise" THEN dps
        ELSE IF Truthy(dps.value) THEN dps
        ELSE Return(List(<<>>))

\* the shared body of ca_issuers and ocsp_responders
AccessLocations(self, method) ==
    LET aia == get_decoded_extension_value(self, ID_PE_AUTHORITY_INFO_ACCESS)
    IN  IF aia.kind = "raise" THEN aia
        ELSE IF aia.value = None THEN Return(List(<<>>))
        ELSE Return(List(MapSeq(
                 SelectSeq(aia.value.items, LAMBDA a : a.accessMethod = method),
                 LAMBDA a : a.accessLocation)))

ca_issuers(self) == AccessLocations(self, ID_AD_CA_ISSUERS)

ocsp_responders(self) == AccessLocations(self, ID_AD_OCSP)

subject_alternative_names_first_only(self) ==
    LET sans == get_decoded_extension_values(self, ID_CE_SUBJECT_ALT_NAME)
    IN  IF sans.kind = "raise" THEN sans
        ELSE IF sans.value.items = <<>> THEN Return(List(<<>>))
        ELSE Return(List(sans.value.items[1].items))
subject_alternative_names(self) ==
    LET sans == get_decoded_extension_values(self, ID_CE_SUBJECT_ALT_NAME)
    IN  IF sans.kind = "raise" THEN sans
        ELSE Return(List(Flatten(sans.value.items)))

\* the loop of _get_subject_alt_names_by_type: for san in sans: ret += [...]
RECURSIVE NamesOfType(_, _)
NamesOfType(sans, san_type) ==
    IF sans = <<>> THEN <<>>
    ELSE MapSeq(SelectSeq(Head(sans).items, LAMBDA c : c.key = san_type),
                LAMBDA c : c.value)
         \o NamesOfType(Tail(sans), san_type)

get_subject_alt_names_by_type(self, san_type) ==
    LET sans == get_decoded_extension_values(self, ID_CE_SUBJECT_ALT_NAME)
    IN  IF sans.kind = "raise" THEN sans
        ELSE Return(List(NamesOfType(sans.value.items, san_type)))

subject_dns_names(self) == get_subject_alt_names_by_type(self, DNS_NAME)

subject_ip_addresses(self) ==
    get_subject_alt_names_by_type(self, IP_ADDRESS_NAME)

-----------------------------------------------------------------------------
(* Validity: a time.struct_time is a tuple, compared field by field.       *)

RECURSIVE TupleLess(_, _)
TupleLess(a, b) ==
    IF a = <<>> THEN b # <<>>
    ELSE IF b = <<>> THEN FALSE
    ELSE IF Head(a) = Head(b) THEN TupleLess(Tail(a), Tail(b))
    ELSE Head(a) < Head(b)

TupleLeq(a, b) == a = b \/ TupleLess(a, b)

StructTime(f) == [t |-> "struct_time", fields |-> f]

\* component_value().gmtime(): the struct_time, or the error of a corrupt time
Gmtime(timeValue) ==
    IF timeValue = None THEN Raise("CertificateError", "Corrupt time")
    ELSE Return(timeValue)

not_before(self) == Gmtime(self.notBefore)

not_after(self) == Gmtime(self.notAfter)

\* now > self.not_after()
is_expired(self, now) ==
    LET na == not_after(self)
    IN  IF na.kind = "raise" THEN na
        ELSE Return(Bool(TupleLess(na.value.fields, now.fields)))

\* now < self.not_before()
is_not_yet_valid(self, now) ==
    LET nb == not_before(self)
    IN  IF nb.kind = "raise" THEN nb
        ELSE Return(Bool(TupleLess(now.fields, nb.value.fields)))

\* self.not_before() <= gmtime <= self.not_after(): a chained comparison,
\* not_after() is evaluated only when the first comparison is true.
is_temporally_valid_at_exclusive(self, gmtime) ==
    LET nb == not_before(self)
    IN  IF nb.kind = "raise" THEN nb
        ELSE IF ~TupleLeq(nb.value.fields, gmtime.fields)
        THEN Return(Bool(FALSE))
        ELSE LET na == not_after(self)
             IN  IF na.kind = "raise" THEN na
                 ELSE Return(Bool(TupleLess(gmtime.fields, na.value.fields)))
is_temporally_valid_at(self, gmtime) ==
    LET nb == not_before(self)
    IN  IF nb.kind = "raise" THEN nb
        ELSE IF ~TupleLeq(nb.value.fields, gmtime.fields)
        THEN Return(Bool(FALSE))
        ELSE LET na == not_after(self)
             IN  IF na.kind = "raise" THEN na
                 ELSE Return(Bool(TupleLeq(gmtime.fields, na.value.fields)))

\* is_temporally_valid_at(time.gmtime())
is_temporally_valid_now(self, now) == is_temporally_valid_at(self, now)

-----------------------------------------------------------------------------
(* The batch readers: generators over the blocks the PEM framer delivers.  *)

Yield(v) == [kind |-> "yield", value |-> v]
StopIteration == [kind |-> "stop"]

\* One next() on the generator body shared by certs_from_pem and
\* certs_from_pem_file, resumed with p blocks consumed: the for loop runs
\* until a yield, a raise or the end of the blocks.
RECURSIVE GeneratorNext_resume_after_error(_, _, _, _)
GeneratorNext_resume_after_error(blocks, p, skip, strict) ==
    IF p = Len(blocks)
    THEN [pos |-> p, gen |-> "closed", out |-> StopIteration]
    ELSE LET c == CertificateInit(blocks[p + 1], strict)
         IN  IF c.kind = "return"
             THEN [pos |-> p + 1, gen |-> "suspended", out |-> Yield(c.value)]
             ELSE IF ~skip
             THEN [pos |-> p + 1, gen |-> "suspended", out |-> c]
             ELSE GeneratorNext_resume_after_error(blocks, p + 1, skip, strict)
RECURSIVE GeneratorNext_stop_at_invalid(_, _, _, _)
GeneratorNext_stop_at_invalid(blocks, p, skip, strict) ==
    IF p = Len(blocks)
    THEN [pos |-> p, gen |-> "closed", out |-> StopIteration]
    ELSE LET c == CertificateInit(blocks[p + 1], strict)
         IN  IF c.kind = "return"
             THEN [pos |-> p + 1, gen |-> "suspended", out |-> Yield(c.value)]
             ELSE IF ~skip
             THEN [pos |-> p + 1, gen |-> "closed", out |-> c]
             ELSE [pos |-> p + 1, gen |-> "closed", out |-> StopIteration]
RECURSIVE GeneratorNext(_, _, _, _)
GeneratorNext(blocks, p, skip, strict) ==
    IF p = Len(blocks)
    THEN [pos |-> p, gen |-> "closed", out |-> StopIteration]
    ELSE LET c == CertificateInit(blocks[p + 1], strict)
         IN  IF c.kind = "return"
             THEN [pos |-> p + 1, gen |-> "suspended", out |-> Yield(c.value)]
             ELSE IF ~skip
             THEN [pos |-> p + 1, gen |-> "closed", out |-> c]
             ELSE GeneratorNext(blocks, p + 1, skip, strict)

certs_from_pem(blocks, p, skip, strict) == GeneratorNext(blocks, p, skip, strict)

certs_from_pem_file(blocks, p, skip, strict) ==
    GeneratorNext(blocks, p, skip, strict)

-----------------------------------------------------------------------------
(* Inputs.                                                                 *)

Corrupt(id) == Extension(id, None)

\* one well-formed value per recognized extension
SampleExtensions ==
    {Extension(ID_CE_BASIC_CONSTRAINTS, BasicConstraints(Bool(TRUE), PyInt(0))),
     Extension(ID_CE_KEY_USAGE, KeyUsage({0, 5}, TRUE)),
     Extension(ID_CE_EXT_KEY_USAGE, List(<<ID_KP_SERVER_AUTH>>)),
     Extension(ID_CE_SUBJECT_KEY_IDENTIFIER, KeyIdentifier("kid1")),
     Extension(ID_CE_AUTHORITY_KEY_IDENTIFIER,
               AuthorityKeyIdentifier(KeyIdentifier("kid3"), None, PyInt(7))),
     Extension(ID_CE_CERTIFICATE_POLICIES,
               List(<<PolicyInformation("policy1", None)>>)),
     Extension(ID_CE_CRL_DISTRIBUTION_POINTS,
               List(<<DistributionPoint("crl1")>>)),
     Extension(ID_PE_AUTHORITY_INFO_ACCESS,
               List(<<AccessDescription(ID_AD_CA_ISSUERS,
                                        GeneralName(URI_NAME, "issuer1")),
                      AccessDescription(ID_AD_OCSP,
                                        GeneralName(URI_NAME, "ocsp1"))>>)),
     Extension(ID_CE_SUBJECT_ALT_NAME,
               List(<<GeneralName(DNS_NAME, "a.com"),
                      GeneralName(IP_ADDRESS_NAME, "1.2.3.4")>>))}

\* the extensions of the certificates every accessor is called on
AllExtensions ==
    SampleExtensions
    \cup {Corrupt(id) : id \in {ID_CE_KEY_USAGE, ID_CE_CERTIFICATE_POLICIES,
                                ID_CE_SUBJECT_ALT_NAME, ID_UNRECOGNIZED}}

\* the extensions of the certificates the two lookups are called on
LookupExtensions ==
    {Extension(ID_CE_SUBJECT_KEY_IDENTIFIER, KeyIdentifier("kid1")),
     Extension(ID_CE_SUBJECT_KEY_IDENTIFIER, KeyIdentifier("kid2")),
     Corrupt(ID_CE_SUBJECT_KEY_IDENTIFIER),
     Extension(ID_CE_KEY_USAGE, KeyUsage({0, 5}, TRUE)),
     Corrupt(ID_CE_KEY_USAGE),
     Corrupt(ID_UNRECOGNIZED)}

KeyUsageExtensions ==
    {Extension(ID_CE_KEY_USAGE, KeyUsage(b, TRUE)) :
        b \in {{}, {0, 1, 2}, {3, 4, 5}, {6, 7, 8}}}
    \cup {Extension(ID_CE_KEY_USAGE, KeyUsage({}, FALSE)),
          Corrupt(ID_CE_KEY_USAGE), Corrupt(ID_CE_BASIC_CONSTRAINTS)}

SanExtensions ==
    {Extension(ID_CE_SUBJECT_ALT_NAME, List(names)) :
        names \in {<<>>,
                   <<GeneralName(DNS_NAME, "a.com")>>,
                   <<GeneralName(DNS_NAME, "b.com")>>,
                   <<GeneralName(IP_ADDRESS_NAME, "1.2.3.4"),
                     GeneralName(DNS_NAME, "a.com"),
                     GeneralName(URI_NAME, "http://a.com")>>,
                   <<GeneralName(DNS_NAME, "b.com"),
                     GeneralName(IP_ADDRESS_NAME, "5.6.7.8")>>}}
    \cup {Corrupt(ID_CE_SUBJECT_ALT_NAME), Corrupt(ID_CE_KEY_USAGE)}

PolicyOids == {"policy1", "policy2", "policy3"}

PolicyExtensions ==
    {Extension(ID_CE_CERTIFICATE_POLICIES,
               List(MapSeq(ids, LAMBDA id : PolicyInformation(id, None)))) :
        ids \in {<<>>, <<"policy1">>, <<"policy1", "policy1">>,
                 <<"policy1", "policy2">>, <<"policy2", "policy1", "policy2">>}}
    \cup {Corrupt(ID_CE_CERTIFICATE_POLICIES), Corrupt(ID_CE_KEY_USAGE)}

\* every extension sequence of at most MaxExtns entries drawn from E
ExtensionSeqs(E) == UNION {[1..n -> E] : n \in 0..MaxExtns}

\* struct_time values: two fields, each 0..MaxTime or 0..1
Times == {StructTime(<<a, b>>) : a \in 0..MaxTime, b \in 0..1}

FixedNotBefore == StructTime(<<0, 0>>)
FixedNotAfter == StructTime(<<1, 0>>)

Der(ok, extns, nb, na) ==
    [wellformed |-> ok, extensions |-> extns, notBefore |-> nb, notAfter |-> na]

\* the DER strings over the extensions E, plus one with an invalid encoding
DerStrings(E) ==
    {Der(TRUE, x, FixedNotBefore, FixedNotAfter) : x \in ExtensionSeqs(E)}
    \cup {Der(FALSE, <<>>, FixedNotBefore, FixedNotAfter)}

\* DER strings differing in their validity only
TimedDerStrings ==
    {Der(TRUE, <<>>, nb, na) : nb \in Times \cup {None}, na \in Times \cup {None}}

\* the PEM blocks of the reader's input
Blocks ==
    {Der(FALSE, <<>>, FixedNotBefore, FixedNotAfter),
     Der(TRUE, <<>>, FixedNotBefore, FixedNotAfter),
     Der(TRUE, <<Extension(ID_CE_SUBJECT_KEY_IDENTIFIER, KeyIdentifier("kid1"))>>,
         FixedNotBefore, FixedNotAfter),
     Der(TRUE, <<Extension(ID_CE_SUBJECT_KEY_IDENTIFIER, KeyIdentifier("kid1")),
                 Extension(ID_CE_SUBJECT_KEY_IDENTIFIER, KeyIdentifier("kid2"))>>,
         FixedNotBefore, FixedNotAfter),
     Der(TRUE, <<Corrupt(ID_CE_KEY_USAGE)>>, FixedNotBefore, FixedNotAfter)}

BlockSeqs == UNION {[1..n -> Blocks] : n \in 0..MaxBlocks}

-----------------------------------------------------------------------------
(* Initial states.                                                         *)

NoCall == [op |-> "none", arg |-> None, out |-> [kind |-> "none"]]

ReaderIdle ==
    /\ pem_blocks = <<>>
    /\ skip_invalid_blobs = FALSE
    /\ pos = 0
    /\ gen = "closed"
    /\ reader = "none"
    /\ pull_log = <<>>

\* a Certificate about to be constructed from one of the DER strings D
InitCertificate(D) ==
    /\ der_string \in D
    /\ strict_der \in BOOLEAN
    /\ asn1_cert = None
    /\ init_result = [kind |-> "new"]
    /\ last = NoCall
    /\ ReaderIdle

Init == InitCertificate(DerStrings(AllExtensions))

LookupInit == InitCertificate(DerStrings(LookupExtensions))

KeyUsageInit == InitCertificate(DerStrings(KeyUsageExtensions))

SanInit == InitCertificate(DerStrings(SanExtensions))

PolicyInit == InitCertificate(DerStrings(PolicyExtensions))

TimeInit == InitCertificate(TimedDerStrings)

\* a generator just created over a block sequence
ReaderInit ==
    /\ der_string = None
    /\ strict_der \in BOOLEAN
    /\ asn1_cert = None
    /\ init_result = [kind |-> "new"]
    /\ last = NoCall
    /\ pem_blocks \in BlockSeqs
    /\ skip_invalid_blobs \in BOOLEAN
    /\ pos = 0
    /\ gen = "suspended"
    /\ reader \in {"certs_from_pem", "certs_from_pem_file"}
    /\ pull_log = <<>>

-----------------------------------------------------------------------------
(* Actions.                                                                *)

\* Certificate(der_string, strict_der)
Construct ==
    /\ init_result.kind = "new"
    /\ LET r == CertificateInit(der_string, strict_der)
       IN  IF r.kind = "return"
           THEN asn1_cert' = r.value /\ init_result' = Return(None)
           ELSE asn1_cert' = None /\ init_result' = r
    /\ UNCHANGED <<der_string, strict_der, last>>
    /\ UNCHANGED readerVars

\* a method call on the constructed certificate, with its outcome
Call(op, arg, out) ==
    /\ init_result.kind = "return"
    /\ last' = [op |-> op, arg |-> arg, out |-> out]
    /\ UNCHANGED <<der_string, strict_der, asn1_cert, init_result>>
    /\ UNCHANGED readerVars

GetDecodedExtensionValue ==
    \E id \in ExtensionOids :
        Call("_get_decoded_extension_value", id,
             get_decoded_extension_value(asn1_cert, id))

GetDecodedExtensionValues ==
    \E id \in ExtensionOids :
        Call("_get_decoded_extension_values", id,
             get_decoded_extension_values(asn1_cert, id))

BasicConstraintCa ==
    Call("basic_constraint_ca", None, basic_constraint_ca(asn1_cert))

BasicConstraintPathLength ==
    Call("basic_constraint_path_length", None,
         basic_constraint_path_length(asn1_cert))

KeyUsageCall ==
    \E bit \in KeyUsageBits :
        Call("key_usage", bit, key_usage(asn1_cert, bit))

KeyUsages == Call("key_usages", None, key_usages(asn1_cert))

ExtendedKeyUsage ==
    \E u \in {ID_KP_SERVER_AUTH, ID_KP_CLIENT_AUTH} :
        Call("extended_key_usage", u, extended_key_usage(asn1_cert, u))

ExtendedKeyUsages ==
    Call("extended_key_usages", None, extended_key_usages(asn1_cert))

SubjectKeyIdentifier ==
    Call("subject_key_identifier", None, subject_key_identifier(asn1_cert))

AuthorityKeyIdentifierCall ==
    \E c \in AkiComponents :
        Call("authority_key_identifier", c,
             authority_key_identifier(asn1_cert, c))

Policies == Call("policies", None, policies(asn1_cert))

Policy ==
    \E o \in PolicyOids : Call("policy", o, policy(asn1_cert, o))

HasPolicy ==
    \E o \in PolicyOids : Call("has_policy", o, has_policy(asn1_cert, o))

CrlDistributionPoints ==
    Call("crl_distribution_points", None, crl_distribution_points(asn1_cert))

CaIssuers == Call("ca_issuers", None, ca_issuers(asn1_cert))

OcspResponders == Call("ocsp_responders", None, ocsp_responders(asn1_cert))

SubjectAlternativeNames ==
    Call("subject_alternative_names", None,
         subject_alternative_names(asn1_cert))

SubjectDnsNames ==
    Call("subject_dns_names", None, subject_dns_names(asn1_cert))

SubjectIpAddresses ==
    Call("subject_ip_addresses", None, subject_ip_addresses(asn1_cert))

NotBefore == Call("not_before", None, not_before(asn1_cert))

NotAfter == Call("not_after", None, not_after(asn1_cert))

\* now = time.gmtime()
IsExpired ==
    \E now \in Times : Call("is_expired", now, is_expired(asn1_cert, now))

IsNotYetValid ==
    \E now \in Times :
        Call("is_not_yet_valid", now, is_not_yet_valid(asn1_cert, now))

IsTemporallyValidAt ==
    \E gmtime \in Times :
        Call("is_temporally_valid_at", gmtime,
             is_temporally_valid_at(asn1_cert, gmtime))

IsTemporallyValidNow ==
    \E now \in Times :
        Call("is_temporally_valid_now", now,
             is_temporally_valid_now(asn1_cert, now))

\* next() on the generator
Pull ==
    /\ reader # "none"
    /\ Len(pull_log) < MaxPulls
    /\ LET r == IF gen = "closed"
                THEN [pos |-> pos, gen |-> "closed", out |-> StopIteration]
                ELSE IF reader = "certs_from_pem"
                THEN certs_from_pem(pem_blocks, pos, skip_invalid_blobs,
                                    strict_der)
                ELSE certs_from_pem_file(pem_blocks, pos, skip_invalid_blobs,
                                         strict_der)
       IN  /\ pos' = r.pos
           /\ gen' = r.gen
           /\ pull_log' = Append(pull_log, r.out)
    /\ UNCHANGED <<pem_blocks, skip_invalid_blobs, reader>>
    /\ UNCHANGED certVars

-----------------------------------------------------------------------------
(* Specifications.                                                         *)

ExtensionAccessors ==
    \/ BasicConstraintCa
    \/ BasicConstraintPathLength
    \/ KeyUsageCall
    \/ KeyUsages
    \/ ExtendedKeyUsage
    \/ ExtendedKeyUsages
    \/ SubjectKeyIdentifier
    \/ AuthorityKeyIdentifierCall
    \/ Policies
    \/ Policy
    \/ HasPolicy
    \/ CrlDistributionPoints
    \/ CaIssuers
    \/ OcspResponders
    \/ SubjectAlternativeNames
    \/ SubjectDnsNames
    \/ SubjectIpAddresses

Next == Construct \/ ExtensionAccessors

Spec == Init /\ [][Next]_vars

LookupNext ==
    \/ Construct
    \/ GetDecodedExtensionValue
    \/ GetDecodedExtensionValues

LookupSpec == LookupInit /\ [][LookupNext]_vars

KeyUsageNext == Construct \/ KeyUsageCall \/ KeyUsages

KeyUsageSpec == KeyUsageInit /\ [][KeyUsageNext]_vars

SanNext ==
    \/ Construct
    \/ SubjectAlternativeNames
    \/ SubjectDnsNames
    \/ SubjectIpAddresses

SanSpec == SanInit /\ [][SanNext]_vars

PolicyNext == Construct \/ Policies \/ Policy \/ HasPolicy

PolicySpec == PolicyInit /\ [][PolicyNext]_vars

TimeNext ==
    \/ Construct
    \/ NotBefore
    \/ NotAfter
    \/ IsExpired
    \/ IsNotYetValid
    \/ IsTemporallyValidAt
    \/ IsTemporallyValidNow

TimeSpec == TimeInit /\ [][TimeNext]_vars

ReaderNext == Pull

ReaderSpec == ReaderInit /\ [][ReaderNext]_vars

-----------------------------------------------------------------------------
(* Properties.  Helpers first: the vocabulary of the statements, defined   *)
(* on the input certificate, independently of the accessors' code.         *)

Constructed == init_result.kind = "return"

MultipleExtensionValues == Raise("CertificateError", "Multiple extension values")
CorruptExtension == Raise("CertificateError", "Corrupt or unrecognized extension")
DuplicatePolicy == Raise("CertificateError", "Policy asserted more than once")
DuplicateExtension == Raise("ASN1Error", "Multiple extensions")

\* positions of the extensions with identifier id, in ascending order
PositionsOf(extns, id) ==
    SortedSeq({i \in 1..Len(extns) : extns[i].extnID = id})

\* the decoded values of identifier id's group, in source order
GroupValues(extns, id) ==
    LET ps == PositionsOf(extns, id)
    IN  [k \in 1..Len(ps) |-> extns[ps[k]].decoded_value]

HasCorrupt(values) == \E k \in 1..Len(values) : values[k] = None

\* two entries of the sequence carry the same identifier
HasRepeatedIdentifier(extns) ==
    \E i, j \in 1..Len(extns) : i < j /\ extns[i].extnID = extns[j].extnID

\* C1: a certificate constructed in strict mode never gets the error
\* "Multiple extension values" from an accessor call, whichever accessor is
\* called, in whatever order and however often.
C1_StrictNeverMultipleExtensionValues ==
    (strict_der /\ Constructed) => last.out # MultipleExtensionValues

\* C1 witness: a strict certificate with two extensions answered a
\* single-valued accessor with the extension's value.
C1_Witness ==
    /\ strict_der
    /\ Constructed
    /\ Len(asn1_cert.extensions) > 1
    /\ last.op = "subject_key_identifier"
    /\ last.out = Return(KeyIdentifier("kid1"))

\* C2: for a structurally decodable certificate, construction fails with
\* "Multiple extensions" when strict and an identifier is repeated, succeeds
\* with the extension sequence unchanged when lenient, and a certificate
\* without a repeated identifier is never rejected.
C2_DuplicateExtensionCheck ==
    (init_result.kind # "new" /\ X509Decode(der_string, strict_der).kind = "return")
    => /\ (HasRepeatedIdentifier(der_string.extensions) /\ strict_der)
             => init_result = DuplicateExtension
       /\ (HasRepeatedIdentifier(der_string.extensions) /\ ~strict_der)
             => /\ Constructed
                /\ asn1_cert.extensions = der_string.extensions
       /\ ~HasRepeatedIdentifier(der_string.extensions) => Constructed

\* C2 witness: strict construction of a certificate with a repeated
\* identifier has failed with "Multiple extensions".
C2_Witness ==
    /\ strict_der
    /\ der_string.wellformed
    /\ HasRepeatedIdentifier(der_string.extensions)
    /\ init_result = DuplicateExtension

\* C3 as stated: _get_decoded_extension_value returns None iff the group is
\* empty, fails with "Multiple extension values" whenever the group has more
\* than one entry, fails with "Corrupt ..." when the single entry's decoded
\* value is None, and otherwise returns the single decoded value.
C3_AsStated ==
    (Constructed /\ last.op = "_get_decoded_extension_value")
    => LET g == GroupValues(asn1_cert.extensions, last.arg)
       IN  /\ (last.out = Return(None)) <=> (Len(g) = 0)
           /\ Len(g) > 1 => last.out = MultipleExtensionValues
           /\ (Len(g) = 1 /\ g[1] = None) => last.out = CorruptExtension
           /\ (Len(g) = 1 /\ g[1] # None) => last.out = Return(g[1])

\* C3 amended: as stated, except that a group with a corrupt entry fails
\* with "Corrupt ..." whatever its size, and "Multiple extension values" is
\* the outcome of a group of more than one entry that all decode.
C3_ResolveSingle ==
    (Constructed /\ last.op = "_get_decoded_extension_value")
    => LET g == GroupValues(asn1_cert.extensions, last.arg)
       IN  /\ (last.out = Return(None)) <=> (Len(g) = 0)
           /\ HasCorrupt(g) => last.out = CorruptExtension
           /\ (Len(g) > 1 /\ ~HasCorrupt(g)) => last.out = MultipleExtensionValues
           /\ (Len(g) = 1 /\ g[1] # None) => last.out = Return(g[1])

\* C3 witness: a group of two entries, one of them corrupt, was looked up
\* and the lookup failed with "Corrupt ...".
C3_Witness ==
    /\ Constructed
    /\ last.op = "_get_decoded_extension_value"
    /\ LET g == GroupValues(asn1_cert.extensions, last.arg)
       IN  Len(g) > 1 /\ HasCorrupt(g) /\ \E k \in 1..Len(g) : g[k] # None
    /\ last.out = CorruptExtension

\* C4: _get_decoded_extension_values returns [] for an empty group, fails
\* with "Corrupt ..." if any entry of the group has decoded value None, and
\* otherwise returns the group's decoded values in source order; it never
\* fails with "Multiple extension values".
C4_ResolveAll ==
    (Constructed /\ last.op = "_get_decoded_extension_values")
    => LET g == GroupValues(asn1_cert.extensions, last.arg)
       IN  /\ Len(g) = 0 => last.out = Return(List(<<>>))
           /\ HasCorrupt(g) => last.out = CorruptExtension
           /\ ~HasCorrupt(g) => last.out = Return(List(g))
           /\ last.out # MultipleExtensionValues

\* C4 witness: a group of two different decoded values was returned whole.
C4_Witness ==
    /\ Constructed
    /\ last.op = "_get_decoded_extension_values"
    /\ last.out.kind = "return"
    /\ Len(last.out.value.items) > 1
    /\ last.out.value.items[1] # last.out.value.items[2]

\* whether block i of the reader's input decodes under the reader's flag
BlockDecodes(i) == CertificateInit(pem_blocks[i], strict_der).kind = "return"

\* the certificate of block i
BlockCert(i) == CertificateInit(pem_blocks[i], strict_der).value

\* index of the first block that fails to decode; Len + 1 if none does
FirstInvalid ==
    LET bad == {i \in 1..Len(pem_blocks) : ~BlockDecodes(i)}
    IN  IF bad = {} THEN Len(pem_blocks) + 1
        ELSE CHOOSE i \in bad : \A j \in bad : i <= j

\* C5: with skip_invalid_blobs false, the k-th pull yields the certificate
\* of block k for every k before the first invalid block, the pull reaching
\* that block raises its decode error, and every later pull ends the
\* iteration without a certificate, valid later blocks or not.
C5_StopsAtFirstInvalid ==
    (reader # "none" /\ ~skip_invalid_blobs)
    => \A k \in 1..Len(pull_log) :
          /\ k < FirstInvalid /\ k <= Len(pem_blocks)
                => pull_log[k] = Yield(BlockCert(k))
          /\ k = FirstInvalid /\ k <= Len(pem_blocks)
                => /\ pull_log[k].kind = "raise"
                   /\ pull_log[k] = CertificateInit(pem_blocks[k], strict_der)
          /\ k > FirstInvalid => pull_log[k] = StopIteration

\* C5 witness: one certificate, then the error of the second block, then a
\* pull that ends the iteration although the third block is valid.
C5_Witness ==
    /\ reader = "certs_from_pem"
    /\ ~skip_invalid_blobs
    /\ Len(pem_blocks) > 2
    /\ FirstInvalid = 2
    /\ BlockDecodes(3)
    /\ Len(pull_log) > 2
    /\ pull_log[1].kind = "yield"
    /\ pull_log[2].kind = "raise"
    /\ pull_log[3] = StopIteration

\* C6: with skip_invalid_blobs true, the pulls yield the certificates of the
\* blocks that decode under the strict flag, in block order, then end the
\* iteration; no pull raises a decode error.
C6_SkipsInvalid ==
    (reader # "none" /\ skip_invalid_blobs)
    => LET good == SortedSeq({i \in 1..Len(pem_blocks) : BlockDecodes(i)})
       IN  \A k \in 1..Len(pull_log) :
              /\ k <= Len(good) => pull_log[k] = Yield(BlockCert(good[k]))
              /\ k > Len(good) => pull_log[k] = StopIteration
              /\ pull_log[k].kind # "raise"

\* C6 witness: a strict reader skipped a block with a repeated extension
\* identifier and a block with an invalid encoding, yielded the valid block
\* behind them and ended.
C6_Witness ==
    /\ reader = "certs_from_pem_file"
    /\ skip_invalid_blobs
    /\ strict_der
    /\ Len(pem_blocks) > 2
    /\ pem_blocks[1].wellformed
    /\ HasRepeatedIdentifier(pem_blocks[1].extensions)
    /\ ~pem_blocks[2].wellformed
    /\ BlockDecodes(3)
    /\ Len(pull_log) = 2
    /\ pull_log[1] = Yield(BlockCert(3))
    /\ pull_log[2] = StopIteration

\* the bit sets of the certificate's KeyUsage extensions, None for a corrupt one
KeyUsageGroup == GroupValues(asn1_cert.extensions, ID_CE_KEY_USAGE)

\* C7 as stated: key_usage(bit) is None without a KeyUsage extension, False
\* or True with exactly one according to the bit, and fails with "Multiple
\* extension values" with more than one; key_usages() is [] both without
\* the extension and with one that has no bit set.
C7_AsStated ==
    LET g == KeyUsageGroup
    IN  /\ (Constructed /\ last.op = "key_usage")
           => /\ Len(g) = 0 => last.out = Return(None)
              /\ (Len(g) = 1 /\ g[1] # None)
                    => last.out = Return(Bool(last.arg \in g[1].bits))
              /\ Len(g) > 1 => last.out = MultipleExtensionValues
        /\ (Constructed /\ last.op = "key_usages")
           => /\ Len(g) = 0 => last.out = Return(List(<<>>))
              /\ (Len(g) = 1 /\ g[1] # None /\ g[1].bits = {})
                    => last.out = Return(List(<<>>))

\* C7 amended: as stated, with "Multiple extension values" the outcome of
\* more than one KeyUsage extension that all decode (a corrupt one among
\* them makes the call fail with "Corrupt ..." instead).
C7_KeyUsage ==
    LET g == KeyUsageGroup
    IN  /\ (Constructed /\ last.op = "key_usage")
           => /\ Len(g) = 0 => last.out = Return(None)
              /\ (Len(g) = 1 /\ g[1] # None)
                    => last.out = Return(Bool(last.arg \in g[1].bits))
              /\ (Len(g) > 1 /\ ~HasCorrupt(g))
                    => last.out = MultipleExtensionValues
              /\ (Len(g) > 1 /\ HasCorrupt(g)) => last.out = CorruptExtension
        /\ (Constructed /\ last.op = "key_usages")
           => /\ Len(g) = 0 => last.out = Return(List(<<>>))
              /\ (Len(g) = 1 /\ g[1] # None /\ g[1].bits = {})
                    => last.out = Return(List(<<>>))

\* C7 witness: the last usage bit was asked of a certificate whose only
\* KeyUsage extension does not set it, and the answer was False.
C7_Witness ==
    /\ Constructed
    /\ last.op = "key_usage"
    /\ last.arg = 8
    /\ Len(KeyUsageGroup) = 1
    /\ KeyUsageGroup[1] # None
    /\ KeyUsageGroup[1].bits # {}
    /\ last.out = Return(Bool(FALSE))

\* the GeneralNames of the SAN extensions of a sequence, one after another
RECURSIVE SanNames(_)
SanNames(extns) ==
    IF extns = <<>> THEN <<>>
    ELSE IF Head(extns).extnID = ID_CE_SUBJECT_ALT_NAME
    THEN Head(extns).decoded_value.items \o SanNames(Tail(extns))
    ELSE SanNames(Tail(extns))

\* the values of the names of one type in a name sequence, in order
ValuesOfType(names, type) ==
    LET ps == SortedSeq({i \in 1..Len(names) : names[i].key = type})
    IN  [k \in 1..Len(ps) |-> names[ps[k]].value]

\* C8: when every SAN extension decodes, subject_alternative_names() is the
\* concatenation of their GeneralNames lists in extension order, duplicates
\* kept, and subject_dns_names() / subject_ip_addresses() are the values of
\* the dNSName / iPAddress entries of that sequence, in the same order.
C8_SubjectAlternativeNames ==
    (Constructed
     /\ ~HasCorrupt(GroupValues(asn1_cert.extensions, ID_CE_SUBJECT_ALT_NAME)))
    => LET names == SanNames(asn1_cert.extensions)
       IN  /\ last.op = "subject_alternative_names"
                => last.out = Return(List(names))
           /\ last.op = "subject_dns_names"
                => last.out = Return(List(ValuesOfType(names, DNS_NAME)))
           /\ last.op = "subject_ip_addresses"
                => last.out = Return(List(ValuesOfType(names, IP_ADDRESS_NAME)))

\* C8 witness: two SAN extensions naming the same host gave that name twice.
C8_Witness ==
    /\ Constructed
    /\ Len(PositionsOf(asn1_cert.extensions, ID_CE_SUBJECT_ALT_NAME)) > 1
    /\ last.op = "subject_dns_names"
    /\ last.out = Return(List(<<"a.com", "a.com">>))

\* the policy lists of the certificate's CertificatePolicies extensions
PolicyGroup == GroupValues(asn1_cert.extensions, ID_CE_CERTIFICATE_POLICIES)

\* positions of the policies with identifier o in a policies list
PolicyPositions(ps, o) ==
    {i \in 1..Len(ps.items) : ps.items[i].policyIdentifier = o}

\* C9: policies() is [] without the extension; policy(oid) is None without
\* the extension or without a policy of that OID, the policy when exactly
\* one entry has the OID, and fails with "Policy asserted more than once"
\* when the list has the OID more than once; has_policy(oid) is True exactly
\* when policy(oid) returns a policy and fails whenever policy(oid) fails.
C9_Policies ==
    LET g == PolicyGroup
        single == Len(g) = 1 /\ g[1] # None
    IN  /\ (Constructed /\ last.op = "policies" /\ Len(g) = 0)
           => last.out = Return(List(<<>>))
        /\ (Constructed /\ last.op = "policy")
           => /\ Len(g) = 0 => last.out = Return(None)
              /\ single =>
                 LET at == PolicyPositions(g[1], last.arg)
                 IN  /\ at = {} => last.out = Return(None)
                     /\ Cardinality(at) = 1
                           => \E i \in at : last.out = Return(g[1].items[i])
                     /\ Cardinality(at) > 1 => last.out = DuplicatePolicy
        /\ (Constructed /\ last.op = "has_policy")
           => /\ Len(g) = 0 => last.out = Return(Bool(FALSE))
              /\ single =>
                 LET at == PolicyPositions(g[1], last.arg)
                 IN  /\ Cardinality(at) = 1 <=> last.out = Return(Bool(TRUE))
                     /\ at = {} => last.out = Return(Bool(FALSE))
                     /\ Cardinality(at) > 1 => last.out = DuplicatePolicy
              /\ (Len(g) > 0 /\ ~single)
                    => last.out \in {CorruptExtension, MultipleExtensionValues}

\* C9 witness: policy(oid) on a list with that OID twice among three
\* policies failed with "Policy asserted more than once".
C9_Witness ==
    /\ Constructed
    /\ last.op = "policy"
    /\ Len(PolicyGroup) = 1
    /\ PolicyGroup[1] # None
    /\ Len(PolicyGroup[1].items) > 2
    /\ last.out = DuplicatePolicy

\* C10 as stated: for every certificate (whose validity times decode),
\* is_temporally_valid_at(not_after()) is True and is_expired() at a
\* current time equal to not_after() is False.
C10_AsStated ==
    (Constructed /\ asn1_cert.notBefore # None /\ asn1_cert.notAfter # None)
    => /\ (last.op = "is_temporally_valid_at" /\ last.arg = asn1_cert.notAfter)
             => last.out = Return(Bool(TRUE))
       /\ (last.op = "is_expired" /\ last.arg = asn1_cert.notAfter)
             => last.out = Return(Bool(FALSE))

\* C10 amended: is_temporally_valid_at(not_after()) is True for every
\* certificate whose not_before() is not later than its not_after() (and
\* False when it is later); is_expired() at a current time equal to
\* not_after() is False for every certificate.
C10_ValidityBounds ==
    (Constructed /\ asn1_cert.notBefore # None /\ asn1_cert.notAfter # None)
    => /\ (last.op = "is_temporally_valid_at" /\ last.arg = asn1_cert.notAfter)
             => last.out =
                  Return(Bool(TupleLeq(asn1_cert.notBefore.fields,
                                       asn1_cert.notAfter.fields)))
       /\ (last.op = "is_expired" /\ last.arg = asn1_cert.notAfter)
             => last.out = Return(Bool(FALSE))

\* C10 witness: a certificate with notBefore before notAfter was asked
\* about the moment notAfter and answered True.
C10_Witness ==
    /\ Constructed
    /\ asn1_cert.notBefore # None
    /\ asn1_cert.notAfter # None
    /\ TupleLess(asn1_cert.notBefore.fields, asn1_cert.notAfter.fields)
    /\ last.op = "is_temporally_valid_at"
    /\ last.arg = asn1_cert.notAfter
    /\ last.out = Return(Bool(TRUE))

-----------------------------------------------------------------------------
(* Certificate.fingerprint                                                 *)

\* the algorithms hashlib always provides (the docstring's list)
AlwaysPresent == {"md5", "sha1", "sha224", "sha256", "sha384", "sha512"}

\* algorithm names a hashlib build may or may not provide
BuildDependent == {"sha3_256", "ripemd160"}

\* the sets of algorithms hashlib.new can know, one per build
HashlibBuilds == {AlwaysPresent \cup extra : extra \in SUBSET BuildDependent}

\* the names fingerprint is called with
HashNames == AlwaysPresent \cup BuildDependent \cup {"nosuchhash"}

\* self._asn1_cert.encode(): the DER encoding of the decoded certificate
Encode(self) == [t |-> "der", of |-> self]

\* h.update(data); h.digest() for the algorithm named hashfunc
Digest(hashfunc, data) == [t |-> "digest", alg |-> hashfunc, data |-> data]

\* hashlib.new(hashfunc) on a build providing `available`, then update and
\* digest; hashlib's ValueError falls through.
fingerprint_default_only(self, hashfunc, available) ==
    Return(Digest("sha1", Encode(self)))
fingerprint(self, hashfunc, available) ==
    IF hashfunc \notin available
    THEN Raise("ValueError", "unsupported hash type")
    ELSE Return(Digest(hashfunc, Encode(self)))

Fingerprint ==
    \E hashfunc \in HashNames, available \in HashlibBuilds :
        Call("fingerprint", [hashfunc |-> hashfunc, hashlib |-> available],
             fingerprint(asn1_cert, hashfunc, available))

FingerprintInit == InitCertificate(DerStrings(LookupExtensions))

FingerprintNext == Construct \/ Fingerprint

FingerprintSpec == FingerprintInit /\ [][FingerprintNext]_vars

\* C11 as stated: fingerprint(name) is the digest of the encoding for the
\* six fixed algorithm names and fails for every other name.
C11_AsStated ==
    (Constructed /\ last.op = "fingerprint")
    => /\ last.arg.hashfunc \in AlwaysPresent
             => last.out = Return(Digest(last.arg.hashfunc, Encode(asn1_cert)))
       /\ last.arg.hashfunc \notin AlwaysPresent => last.out.kind = "raise"

\* C11 amended: fingerprint(name) is the digest of the encoding for the six
\* fixed names and for every other name the hashlib build provides, and
\* fails (with hashlib's ValueError) exactly for the names it does not.
C11_Fingerprint ==
    (Constructed /\ last.op = "fingerprint")
    => /\ last.arg.hashfunc \in AlwaysPresent \cup last.arg.hashlib
             => last.out = Return(Digest(last.arg.hashfunc, Encode(asn1_cert)))
       /\ last.arg.hashfunc \notin last.arg.hashlib
             => last.out = Raise("ValueError", "unsupported hash type")

\* C11 witness: sha256 of a certificate with extensions was computed.
C11_Witness ==
    /\ Constructed
    /\ asn1_cert.extensions # <<>>
    /\ last.op = "fingerprint"
    /\ last.arg.hashfunc = "sha256"
    /\ last.out = Return(Digest("sha256", Encode(asn1_cert)))

\* C12: a certificate constructed in strict mode never gets a
\* CertificateError (corrupt extension, multiple extension values, policy
\* asserted more than once) from an accessor call.
C12_StrictNeverCertificateError ==
    (strict_der /\ Constructed)
    => ~(last.out.kind = "raise" /\ last.out.exc = "CertificateError")

\* the certificate a lenient construction makes of an extension sequence
LenientCertificate(extns) ==
    CertificateInit(Der(TRUE, extns, FixedNotBefore, FixedNotAfter), FALSE).value

\* C13: in lenient mode a lookup of identifier Y depends on Y's entries
\* only: every certificate whose entries with identifier Y are the same, in
\* the same order, gets the same outcome (value or error) from
\* _get_decoded_extension_value(Y) and from _get_decoded_extension_values(Y),
\* whatever its entries with other identifiers are.
C13_LookupIndependence ==
    (Constructed /\ ~strict_der)
    => \A other \in ExtensionSeqs(LookupExtensions) :
          (last.op \in {"_get_decoded_extension_value",
                        "_get_decoded_extension_values"}
           /\ GroupValues(other, last.arg)
                 = GroupValues(asn1_cert.extensions, last.arg))
          => /\ last.op = "_get_decoded_extension_value"
                   => get_decoded_extension_value(LenientCertificate(other),
                                                  last.arg) = last.out
             /\ last.op = "_get_decoded_extension_values"
                   => get_decoded_extension_values(LenientCertificate(other),
                                                   last.arg) = last.out

\* C13 witness: a lenient certificate with a corrupt KeyUsage extension
\* next to its subject key identifier answered the lookup of the latter.
C13_Witness ==
    /\ Constructed
    /\ ~strict_der
    /\ \E i \in 1..Len(asn1_cert.extensions) :
          asn1_cert.extensions[i] = Corrupt(ID_CE_KEY_USAGE)
    /\ last.op = "_get_decoded_extension_value"
    /\ last.arg = ID_CE_SUBJECT_KEY_IDENTIFIER
    /\ last.out = Return(KeyIdentifier("kid1"))

====
